---- MODULE Spec2Model ----
(***************************************************************************)
(* kubetnl: the tunnel controller (pkg/tunnel), the pod-port-forwarder     *)
(* (pkg/portforward.KubeForwarder), the SSH tunnel layer                   *)
(* (pkg/tunnel.SSHTunnel) and the tunnel command (pkg/command/tunnel).     *)
(*                                                                         *)
(* Five specifications share the variables and the actions below:          *)
(*   Spec     one run of the tunnel command (NewTunnelCommand's Run func)  *)
(*            with the goroutines it starts;                               *)
(*   SpecKF   one KubeForwarder used directly (Run, Stop, ctx), as the     *)
(*            test does with hereToKube;                                   *)
(*   SpecApi  one Tunnel used through its API by a sequential caller       *)
(*            (Run, Ready, Stop, Run again);                               *)
(*   SpecRun  one call of Tunnel.Run with the port-forwarder it starts;    *)
(*   SpecFn   the command from Complete to the creates of Run, over every  *)
(*            list of port mappings the command line can give.             *)
(*                                                                         *)
(* A channel that is only ever closed is modelled by the number of         *)
(* close() calls made on it: 0 open, 1 closed, 2 a close of a closed       *)
(* channel, which panics and ends the process (proc = "panic").            *)
(***************************************************************************)
EXTENDS Integers, Sequences, FiniteSets, TLC

\* Largest number of port mappings of a tunnel.
MaxMappings == 2
\* Number of goroutines other than the context watcher that call
\* KubeForwarder.Stop.
NumCallers == 2
\* Largest number of Tunnel.Run calls made by the API caller.
MaxRuns == 2
\* Largest number of port mappings on the command line of SpecFn.
MaxArgs == 3
\* Number of ports of the sweep GetFreeSSHPortInContainer makes after 2222
\* and 22: the code sweeps min..max = 49152..65535, the model the first
\* SweepLen ports of that range.
SweepLen == 1
\* min := 49152
SweepMin == 49152
SweepMax == SweepMin + SweepLen - 1

VARIABLES
    \* ---- process and context
    proc,            \* "running" | "exit0" | "exit1" | "panic"
    ctxCancelled,    \* the session context is done
    \* ---- KubeForwarder (pkg/portforward/kube.go)
    kfPc,            \* position of the worker goroutine
    kfReadyCh,       \* close() calls on readyCh
    doneCh,          \* close() calls on doneCh
    stopCh,          \* close() calls on stopCh
    shouldStop,      \* the shouldStop field
    stopChClose,     \* the sync.Once: "idle" | "running" | "done"
    mutex,           \* holder of the embedded sync.Mutex
    wShouldStop,     \* the worker's local copy of shouldStop
    stopPc,          \* position of each goroutine that may call Stop
    kfListener,      \* the local listen socket of the current session is bound
    kfLost,          \* a session ended by loss of the connection to the pod
    \* ---- SSHTunnel (pkg/tunnel/util.go)
    sshClient,       \* "nil" | "connected" | "broken" | "closed"
    listeners,       \* per mapping: "none" | "open" | "nil" | "closed"
    listenOk,        \* number of remote listens that succeeded
    task,            \* per mapping: "none" | "running" | "failed" | "exited"
    tctxCancelled,   \* the errgroup's context was cancelled by the group
    closerPc,        \* position of the goroutine started at util.go:160
    \* ---- Tunnel (pkg/tunnel/util.go, pod.go) and the cluster
    ContinueOnTunnelError,
    nMappings,       \* len(PortMappings)
    Name,            \* TunnelConfig.Name
    PortMappings,    \* TunnelConfig.PortMappings
    RemoteSSHPort,   \* TunnelConfig.RemoteSSHPort
    readyCh,         \* close() calls on the tunnel's readyCh
    service, configMap, serviceAccount, pod, \* "nil" | "empty" | "set"
    cluster,         \* kinds of which an object named <name> exists
    podReady,        \* the Pod's PodReady condition is True
    created,         \* kinds whose object was created by Run
    deleteFailed,    \* some delete call of Stop returned an error
    deleteLog,       \* kinds for which Stop issued a delete, in order
    createLog,       \* objects the latest Run sent in a create, in order
    createAns,       \* the answers to them: "ok" | "exists" | "error"
    stopCtxDone,     \* the ctx given to Stop was done when it deleted
    stopErr,         \* what Stop returned: "none" | "nil" | "error"
    waitErr,         \* what WaitPodReady returned: "none" | "nil" | "error"
    \* ---- callers
    pc,              \* position of the goroutine that calls Tunnel.Run
    li,              \* index of the mapping RunPortMappings is listening for
    runErr,          \* what Run returned: "none" | "nil" | "error" | ...
    runs             \* number of Run calls made

procVars == <<proc, ctxCancelled>>
kfVars == <<kfPc, kfReadyCh, doneCh, stopCh, shouldStop, stopChClose, mutex,
            wShouldStop, stopPc, kfListener, kfLost>>
sshVars == <<sshClient, listeners, listenOk, task, tctxCancelled, closerPc>>
cfgVars == <<ContinueOnTunnelError, nMappings, Name, PortMappings,
             RemoteSSHPort>>
waitVars == <<waitErr>>
stopVars == <<stopCtxDone, stopErr>>
objVars == <<service, configMap, serviceAccount, pod, cluster, podReady,
             created, deleteFailed, deleteLog, createLog, createAns,
             stopVars>>
tunVars == <<readyCh, objVars>>
callVars == <<pc, li, runErr, runs>>
vars == <<procVars, kfVars, sshVars, cfgVars, waitVars, tunVars, callVars>>

Kinds == {"Service", "ConfigMap", "ServiceAccount", "Pod"}
Watcher == <<"watcher">>
Callers == {<<"caller", i>> : i \in 1..NumCallers}
Stoppers == {Watcher} \cup Callers
Running == proc = "running"

\* close(ch): the close is counted; closing a closed channel panics.
CloseCount(ch) == IF ch >= 1 THEN 2 ELSE 1
ClosePanics(ch) == ch >= 1

(***************************************************************************)
(* Configuration: port mappings, the SSH port, the objects sent to the     *)
(* cluster                                                                 *)
(***************************************************************************)

\* port.Protocol values.
Protocols == {"TCP", "UDP", "SCTP"}

\* Container ports a mapping on the command line may name: the two ports
\* GetFreeSSHPortInContainer prefers, the ports it sweeps, and one other.
ArgPorts == {2222, 22, 8080} \cup (SweepMin..SweepMax)

\* port.Mapping, the fields used here.
Mapping == [ContainerPortNumber : ArgPorts, Protocol : Protocols]

\* port.ParseMappings: the lists of n mappings it can return; two mappings
\* of one list have distinct container ports.
ParseMappings(n) ==
    {mm \in [1..n -> Mapping] :
        \A i, j \in 1..n :
            i # j => mm[i].ContainerPortNumber # mm[j].ContainerPortNumber}

\* The mappings of the command line `kubetnl tunnel NAME 8080:8080 ...`.
ExampleMappings(n) ==
    [i \in 1..n |-> [ContainerPortNumber |-> 8079 + i, Protocol |-> "TCP"]]

isInUse(mm, containerPort) ==
    \E i \in 1..Len(mm) : mm[i].ContainerPortNumber = containerPort

\* for i := min; i <= max; i++ { if !isInUse(mm, i) { return i, nil } }
\* return 0, error
RECURSIVE Sweep(_, _)
Sweep(mm, i) ==
    IF i > SweepMax THEN [port |-> 0, err |-> TRUE]
    ELSE IF ~isInUse(mm, i) THEN [port |-> i, err |-> FALSE]
    ELSE Sweep(mm, i + 1)

\* A chooser that tries 22 before 2222.
GetFreeSSHPortPrefers22(mm) ==
    IF ~isInUse(mm, 22) THEN [port |-> 22, err |-> FALSE]
    ELSE IF ~isInUse(mm, 2222) THEN [port |-> 2222, err |-> FALSE]
    ELSE Sweep(mm, SweepMin)

\* GetFreeSSHPortInContainer: 2222, then 22, then the sweep.
GetFreeSSHPortInContainer(mm) ==
    IF ~isInUse(mm, 2222) THEN [port |-> 2222, err |-> FALSE]
    ELSE IF ~isInUse(mm, 22) THEN [port |-> 22, err |-> FALSE]
    ELSE Sweep(mm, SweepMin)

protocolToCoreV1(p) ==
    IF p = "SCTP" THEN "SCTP"
    ELSE IF p = "UDP" THEN "UDP"
    ELSE "TCP"

\* Service ports that all declare TCP.
servicePortsAllTCP(mappings) ==
    [i \in 1..Len(mappings) |->
        [Name |-> ToString(i - 1),
         Port |-> mappings[i].ContainerPortNumber,
         TargetPort |-> mappings[i].ContainerPortNumber,
         Protocol |-> "TCP"]]

\* servicePorts: one ServicePort per mapping, appended in mapping order; the
\* name is fmt.Sprint of the slice index, which starts at 0; a container
\* port is at most 65535, so int32() and intstr.FromInt() keep its value.
servicePorts(mappings) ==
    [i \in 1..Len(mappings) |->
        [Name |-> ToString(i - 1),
         Port |-> mappings[i].ContainerPortNumber,
         TargetPort |-> mappings[i].ContainerPortNumber,
         Protocol |-> protocolToCoreV1(mappings[i].Protocol)]]

\* Container ports in the reverse of the mapping order.
containerPortsReversed(mappings) ==
    [i \in 1..Len(mappings) |->
        [ContainerPort |-> mappings[Len(mappings) + 1 - i].ContainerPortNumber,
         Protocol |->
             protocolToCoreV1(mappings[Len(mappings) + 1 - i].Protocol)]]

\* containerPorts, and the port CreatePod appends for the SSH server.
containerPorts(mappings) ==
    [i \in 1..Len(mappings) |->
        [ContainerPort |-> mappings[i].ContainerPortNumber,
         Protocol |-> protocolToCoreV1(mappings[i].Protocol)]]

\* Labels: map[string]string{"io.github.kubetnl": name}
Labels(name) == [k \in {"io.github.kubetnl"} |-> name]

\* A Service that carries the same label value for every tunnel.
getServiceFixedLabel(name, ports) ==
    [Kind |-> "Service", Name |-> name, Labels |-> Labels("kubetnl"),
     Selector |-> Labels(name), Ports |-> ports]

getService(name, ports) ==
    [Kind |-> "Service", Name |-> name, Labels |-> Labels(name),
     Selector |-> Labels(name), Ports |-> ports]

getConfigMap(name) ==
    [Kind |-> "ConfigMap", Name |-> name, Labels |-> Labels(name)]

getServiceAccount(name) ==
    [Kind |-> "ServiceAccount", Name |-> name, Labels |-> Labels(name)]

getPod(name, sshPort, ports) ==
    [Kind |-> "Pod", Name |-> name, Labels |-> Labels(name),
     ServiceAccountName |-> name, Ports |-> ports,
     EnvPORT |-> ToString(sshPort), ProbePort |-> sshPort]

\* The kinds of the objects of a create log, in order.
KindsOf(log) == [i \in 1..Len(log) |-> log[i].Kind]

(***************************************************************************)
(* KubeForwarder                                                           *)
(***************************************************************************)

\* NewKubeForwarder: the channels are open, nothing runs.
KFInit ==
    /\ kfPc = "new"
    /\ kfReadyCh = 0
    /\ doneCh = 0
    /\ stopCh = 0
    /\ shouldStop = FALSE
    /\ stopChClose = "idle"
    /\ mutex = <<"free">>
    /\ wShouldStop = FALSE
    /\ stopPc = [s \in Stoppers |-> "idle"]
    /\ kfListener = FALSE
    /\ kfLost = FALSE

\* KubeForwarder.Run: starts the worker and the context watcher, returns.
KFStart ==
    /\ kfPc = "new"
    /\ kfPc' = "roundTripper"
    /\ stopPc' = [stopPc EXCEPT ![Watcher] = "waitCtx"]
    /\ UNCHANGED <<kfReadyCh, doneCh, stopCh, shouldStop, stopChClose, mutex,
                   wShouldStop, kfListener, kfLost>>

\* The end of a port-forward session: ForwardPorts' deferred Close releases
\* the local listener, and the stream carrying the SSH connection is gone.
SessionEnd ==
    /\ kfListener' = FALSE
    /\ sshClient' = IF sshClient = "connected" THEN "broken" ELSE sshClient

\* spdy.RoundTripperFor: on an error the worker returns at once.
KFRoundTripper ==
    /\ Running /\ kfPc = "roundTripper"
    /\ \E ok \in BOOLEAN : kfPc' = IF ok THEN "select" ELSE "returned"
    /\ UNCHANGED <<procVars, kfReadyCh, doneCh, stopCh, shouldStop, stopChClose,
                   mutex, wShouldStop, stopPc, kfListener, kfLost, sshVars,
                   cfgVars, waitVars, tunVars, callVars>>

\* select, case <-time.After(500ms): a new session attempt begins.
KFTick ==
    /\ Running /\ kfPc = "select"
    /\ kfPc' = "dial"
    /\ UNCHANGED <<procVars, kfReadyCh, doneCh, stopCh, shouldStop, stopChClose,
                   mutex, wShouldStop, stopPc, kfListener, kfLost, sshVars,
                   cfgVars, waitVars, tunVars, callVars>>

\* select, case <-ctx.Done(): break loop.
KFCtxDone ==
    /\ Running /\ kfPc = "select" /\ ctxCancelled
    /\ kfPc' = "closeDone"
    /\ UNCHANGED <<procVars, kfReadyCh, doneCh, stopCh, shouldStop, stopChClose,
                   mutex, wShouldStop, stopPc, kfListener, kfLost, sshVars,
                   cfgVars, waitVars, tunVars, callVars>>

\* A worker that gives up when the dial of an attempt fails.
KFDialErrorEndsLoop ==
    /\ Running /\ kfPc = "dial"
    /\ \E ok \in BOOLEAN : kfPc' = IF ok THEN "listen" ELSE "closeDone"
    /\ UNCHANGED <<procVars, kfReadyCh, doneCh, stopCh, shouldStop, stopChClose,
                   mutex, wShouldStop, stopPc, kfListener, kfLost, sshVars,
                   cfgVars, waitVars, tunVars, callVars>>

\* ForwardPorts: dial the pod. An error is logged and the loop continues.
KFDial ==
    /\ Running /\ kfPc = "dial"
    /\ \E ok \in BOOLEAN : kfPc' = IF ok THEN "listen" ELSE "select"
    /\ UNCHANGED <<procVars, kfReadyCh, doneCh, stopCh, shouldStop, stopChClose,
                   mutex, wShouldStop, stopPc, kfListener, kfLost, sshVars,
                   cfgVars, waitVars, tunVars, callVars>>

\* ForwardPorts: bind the local port. An error is logged and the loop continues.
KFListen ==
    /\ Running /\ kfPc = "listen"
    /\ \E ok \in BOOLEAN :
        /\ kfPc' = IF ok THEN "closeReady" ELSE "select"
        /\ kfListener' = ok
    /\ UNCHANGED <<procVars, kfReadyCh, doneCh, stopCh, shouldStop, stopChClose,
                   mutex, wShouldStop, stopPc, kfLost, sshVars,
                   cfgVars, waitVars, tunVars, callVars>>

\* ForwardPorts: the session is ready and closes the ready channel it was
\* given, which is o.readyCh in every iteration of the loop.
KFSessionReady ==
    /\ Running /\ kfPc = "closeReady"
    /\ kfReadyCh' = CloseCount(kfReadyCh)
    /\ proc' = IF ClosePanics(kfReadyCh) THEN "panic" ELSE proc
    /\ kfPc' = "session"
    /\ UNCHANGED <<ctxCancelled, doneCh, stopCh, shouldStop, stopChClose,
                   mutex, wShouldStop, stopPc, kfListener, kfLost, sshVars,
                   cfgVars, waitVars, tunVars, callVars>>

\* ForwardPorts returns nil because stopCh is closed.
KFSessionStopped ==
    /\ Running /\ kfPc = "session" /\ stopCh >= 1
    /\ kfPc' = "lock"
    /\ SessionEnd
    /\ UNCHANGED <<procVars, kfReadyCh, doneCh, stopCh, shouldStop, stopChClose,
                   mutex, wShouldStop, stopPc, kfLost, listeners, listenOk,
                   task, tctxCancelled, closerPc, cfgVars, waitVars, tunVars, callVars>>

\* ForwardPorts returns nil because the connection to the pod was lost.
KFSessionLost ==
    /\ Running /\ kfPc = "session"
    /\ kfPc' = "lock"
    /\ kfLost' = TRUE
    /\ SessionEnd
    /\ UNCHANGED <<procVars, kfReadyCh, doneCh, stopCh, shouldStop, stopChClose,
                   mutex, wShouldStop, stopPc, listeners, listenOk,
                   task, tctxCancelled, closerPc, cfgVars, waitVars, tunVars, callVars>>

\* o.Lock()
KFLock ==
    /\ Running /\ kfPc = "lock" /\ mutex = <<"free">>
    /\ mutex' = <<"worker">>
    /\ kfPc' = "read"
    /\ UNCHANGED <<procVars, kfReadyCh, doneCh, stopCh, shouldStop, stopChClose,
                   wShouldStop, stopPc, kfListener, kfLost, sshVars,
                   cfgVars, waitVars, tunVars, callVars>>

\* shouldStop := o.shouldStop
KFRead ==
    /\ Running /\ kfPc = "read"
    /\ wShouldStop' = shouldStop
    /\ kfPc' = "unlock"
    /\ UNCHANGED <<procVars, kfReadyCh, doneCh, stopCh, shouldStop, stopChClose,
                   mutex, stopPc, kfListener, kfLost, sshVars,
                   cfgVars, waitVars, tunVars, callVars>>

\* o.Unlock(), then if shouldStop { break loop }, otherwise loop again; the
\* local shouldStop goes out of scope.
KFUnlock ==
    /\ Running /\ kfPc = "unlock"
    /\ mutex' = <<"free">>
    /\ kfPc' = IF wShouldStop THEN "closeDone" ELSE "select"
    /\ wShouldStop' = FALSE
    /\ UNCHANGED <<procVars, kfReadyCh, doneCh, stopCh, shouldStop, stopChClose,
                   stopPc, kfListener, kfLost, sshVars,
                   cfgVars, waitVars, tunVars, callVars>>

\* close(o.doneCh); return nil
KFCloseDone ==
    /\ Running /\ kfPc = "closeDone"
    /\ doneCh' = CloseCount(doneCh)
    /\ proc' = IF ClosePanics(doneCh) THEN "panic" ELSE proc
    /\ kfPc' = "returned"
    /\ UNCHANGED <<ctxCancelled, kfReadyCh, stopCh, shouldStop, stopChClose,
                   mutex, wShouldStop, stopPc, kfListener, kfLost, sshVars,
                   cfgVars, waitVars, tunVars, callVars>>

KFWorker ==
    \/ KFRoundTripper \/ KFTick \/ KFCtxDone \/ KFDial \/ KFListen
    \/ KFSessionReady \/ KFSessionStopped \/ KFSessionLost
    \/ KFLock \/ KFRead \/ KFUnlock \/ KFCloseDone

(***************************************************************************)
(* KubeForwarder.Stop and its callers                                      *)
(***************************************************************************)

stopRest == <<procVars, kfPc, kfReadyCh, doneCh, wShouldStop, kfListener,
              kfLost, sshVars, cfgVars, waitVars, tunVars, callVars>>

\* The context watcher: <-ctx.Done(), then o.Stop().
WatcherCtxDone ==
    /\ Running /\ stopPc[Watcher] = "waitCtx" /\ ctxCancelled
    /\ stopPc' = [stopPc EXCEPT ![Watcher] = "once"]
    /\ UNCHANGED <<stopCh, shouldStop, stopChClose, mutex, stopRest>>

\* A goroutine calls o.Stop(), for the first time or again.
StopCall(s) ==
    /\ Running /\ s \in Callers /\ stopPc[s] \in {"idle", "returned"}
    /\ stopPc' = [stopPc EXCEPT ![s] = "once"]
    /\ UNCHANGED <<stopCh, shouldStop, stopChClose, mutex, stopRest>>

\* A Stop that closes stopCh without the Once: every call that finds no other
\* call inside the function runs it.
OnceFirstUnguarded == stopChClose # "running"

\* Whether stopChClose.Do lets this call run the function: only the first.
OnceFirst == stopChClose = "idle"

\* A function that closes stopCh first and sets shouldStop afterwards.
StopStepsCloseFirst == <<"close", "lock", "set", "unlock">>

\* A function that closes stopCh before it unlocks the mutex.
StopStepsCloseLocked == <<"lock", "set", "close", "unlock">>

\* The statements of the function Stop gives to the Once, in order: o.Lock(),
\* o.shouldStop = true, o.Unlock(), close(o.stopCh).
StopSteps == <<"lock", "set", "unlock", "close">>

\* Where a call is after the statement step: at the next statement, or
\* returned after the last one.
StopAfter(step) ==
    LET i == CHOOSE k \in 1..Len(StopSteps) : StopSteps[k] = step
    IN  IF i = Len(StopSteps) THEN "returned" ELSE StopSteps[i + 1]

\* The Once is done when the function returns.
OnceAfter(step) ==
    IF StopAfter(step) = "returned" THEN "done" ELSE stopChClose

\* o.stopChClose.Do(func): the first call runs the function, a call made while
\* it runs waits for it, a later call returns at once.
StopOnce(s) ==
    /\ Running /\ stopPc[s] = "once"
    /\ \/ /\ OnceFirst
          /\ stopChClose' = "running"
          /\ stopPc' = [stopPc EXCEPT ![s] = StopSteps[1]]
       \/ /\ ~OnceFirst /\ stopChClose = "done"
          /\ stopPc' = [stopPc EXCEPT ![s] = "returned"]
          /\ UNCHANGED stopChClose
    /\ UNCHANGED <<stopCh, shouldStop, mutex, stopRest>>

\* o.Lock()
StopLock(s) ==
    /\ Running /\ stopPc[s] = "lock" /\ mutex = <<"free">>
    /\ mutex' = <<"stop", s>>
    /\ stopPc' = [stopPc EXCEPT ![s] = StopAfter("lock")]
    /\ stopChClose' = OnceAfter("lock")
    /\ UNCHANGED <<stopCh, shouldStop, stopRest>>

\* o.shouldStop = true
StopSet(s) ==
    /\ Running /\ stopPc[s] = "set"
    /\ shouldStop' = TRUE
    /\ stopPc' = [stopPc EXCEPT ![s] = StopAfter("set")]
    /\ stopChClose' = OnceAfter("set")
    /\ UNCHANGED <<stopCh, mutex, stopRest>>

\* o.Unlock()
StopUnlock(s) ==
    /\ Running /\ stopPc[s] = "unlock"
    /\ mutex' = <<"free">>
    /\ stopPc' = [stopPc EXCEPT ![s] = StopAfter("unlock")]
    /\ stopChClose' = OnceAfter("unlock")
    /\ UNCHANGED <<stopCh, shouldStop, stopRest>>

\* close(o.stopCh); the function returns and the Once is done.
StopClose(s) ==
    /\ Running /\ stopPc[s] = "close"
    /\ stopCh' = CloseCount(stopCh)
    /\ proc' = IF ClosePanics(stopCh) THEN "panic" ELSE proc
    /\ stopChClose' = OnceAfter("close")
    /\ stopPc' = [stopPc EXCEPT ![s] = StopAfter("close")]
    /\ UNCHANGED <<ctxCancelled, shouldStop, mutex, kfPc, kfReadyCh, doneCh,
                   wShouldStop, kfListener, kfLost, sshVars, cfgVars, waitVars, tunVars,
                   callVars>>

KFStop(s) ==
    \/ StopOnce(s) \/ StopLock(s) \/ StopSet(s) \/ StopUnlock(s) \/ StopClose(s)

\* The session context is cancelled (the first interrupt signal, or the
\* test's context).
Cancel ==
    /\ Running /\ ~ctxCancelled
    /\ ctxCancelled' = TRUE
    /\ UNCHANGED <<proc, kfVars, sshVars, cfgVars, waitVars, tunVars, callVars>>

\* NewSSHTunnel, and no port mapping started yet.
SSHIdle ==
    /\ sshClient = "nil"
    /\ listeners = [i \in 1..nMappings |-> "none"]
    /\ listenOk = 0
    /\ task = [i \in 1..nMappings |-> "none"]
    /\ tctxCancelled = FALSE
    /\ closerPc = "none"

\* NewTunnel: the ready channel is open and no object field is set.
TunnelNew ==
    /\ readyCh = 0
    /\ service = "nil" /\ configMap = "nil"
    /\ serviceAccount = "nil" /\ pod = "nil"
    /\ created = {}
    /\ podReady = FALSE
    /\ deleteFailed = FALSE
    /\ deleteLog = <<>>
    /\ createLog = <<>>
    /\ createAns = <<>>
    /\ stopCtxDone = FALSE
    /\ stopErr = "none"

(***************************************************************************)
(* Tunnel.Run, one step per call it makes                                  *)
(***************************************************************************)

\* Run returns err to its caller.
RunReturns(err) ==
    /\ runErr' = err
    /\ pc' = "checkErr"

\* What a typed client's Create leaves in the field: the created object, or
\* on an error the empty object it allocated for the answer.
Created(ok) == IF ok THEN "set" ELSE "empty"

\* CreateService. Run calls it first.
CreateService ==
    /\ Running /\ pc = "createService"
    /\ \E ok \in BOOLEAN :
        /\ ok => (~ctxCancelled /\ "Service" \notin cluster)
        /\ service' = Created(ok)
        /\ createLog' = Append(createLog,
                                getService(Name, servicePorts(PortMappings)))
        /\ createAns' = Append(createAns, IF ok THEN "ok" ELSE "error")
        /\ IF ok
             THEN /\ cluster' = cluster \cup {"Service"}
                  /\ created' = created \cup {"Service"}
                  /\ pc' = "createConfigMap"
                  /\ UNCHANGED runErr
             ELSE /\ RunReturns("error")
                  /\ UNCHANGED <<cluster, created>>
    /\ UNCHANGED <<procVars, kfVars, sshVars, cfgVars, waitVars, readyCh, configMap,
                   serviceAccount, pod, podReady, deleteFailed, deleteLog,
                   stopVars, li, runs>>

\* CreateConfigMap.
CreateConfigMap ==
    /\ Running /\ pc = "createConfigMap"
    /\ \E ok \in BOOLEAN :
        /\ ok => (~ctxCancelled /\ "ConfigMap" \notin cluster)
        /\ configMap' = Created(ok)
        /\ createLog' = Append(createLog, getConfigMap(Name))
        /\ createAns' = Append(createAns, IF ok THEN "ok" ELSE "error")
        /\ IF ok
             THEN /\ cluster' = cluster \cup {"ConfigMap"}
                  /\ created' = created \cup {"ConfigMap"}
                  /\ pc' = "createSA"
                  /\ UNCHANGED runErr
             ELSE /\ RunReturns("error")
                  /\ UNCHANGED <<cluster, created>>
    /\ UNCHANGED <<procVars, kfVars, sshVars, cfgVars, waitVars, readyCh, service,
                   serviceAccount, pod, podReady, deleteFailed, deleteLog,
                   stopVars, li, runs>>

\* A CreatePod that returns every error of the ServiceAccount create.
ServiceAccountErrStrict(res) == res # "ok"

\* if err != nil { if !errors.IsAlreadyExists(err) { return ... } }
ServiceAccountErr(res) == res \notin {"ok", "exists"}

\* CreatePod, the ServiceAccount: an AlreadyExists error is ignored.
CreateServiceAccount ==
    /\ Running /\ pc = "createSA"
    /\ \E res \in {"ok", "exists", "error"} :
        /\ res = "ok" => (~ctxCancelled /\ "ServiceAccount" \notin cluster)
        /\ res = "exists" => (~ctxCancelled /\ "ServiceAccount" \in cluster)
        /\ serviceAccount' = Created(res = "ok")
        /\ createLog' = Append(createLog, getServiceAccount(Name))
        /\ createAns' = Append(createAns, res)
        /\ IF res = "ok"
             THEN /\ cluster' = cluster \cup {"ServiceAccount"}
                  /\ created' = created \cup {"ServiceAccount"}
             ELSE UNCHANGED <<cluster, created>>
        /\ IF ServiceAccountErr(res)
             THEN RunReturns("error")
             ELSE pc' = "createPod" /\ UNCHANGED runErr
    /\ UNCHANGED <<procVars, kfVars, sshVars, cfgVars, waitVars, readyCh, service,
                   configMap, pod, podReady, deleteFailed, deleteLog, stopVars,
                   li, runs>>

\* CreatePod, the Pod it builds: the container ports of the mappings and the
\* port named ssh.
PodObject ==
    getPod(Name, RemoteSSHPort,
           Append(containerPorts(PortMappings),
                  [Name |-> "ssh", ContainerPort |-> RemoteSSHPort]))

\* CreatePod, the Pod.
CreatePodObject ==
    /\ Running /\ pc = "createPod"
    /\ \E ok \in BOOLEAN :
        /\ ok => (~ctxCancelled /\ "Pod" \notin cluster)
        /\ pod' = Created(ok)
        /\ createLog' = Append(createLog, PodObject)
        /\ createAns' = Append(createAns, IF ok THEN "ok" ELSE "error")
        /\ IF ok
             THEN /\ cluster' = cluster \cup {"Pod"}
                  /\ created' = created \cup {"Pod"}
                  /\ pc' = "watch"
                  /\ UNCHANGED runErr
             ELSE /\ RunReturns("error")
                  /\ UNCHANGED <<cluster, created>>
    /\ UNCHANGED <<procVars, kfVars, sshVars, cfgVars, waitVars, readyCh, service,
                   configMap, serviceAccount, podReady, deleteFailed, deleteLog,
                   stopVars, li, runs>>

\* CreatePod, podClient.Watch: an error ends Run.
WatchPod ==
    /\ Running /\ pc = "watch"
    /\ \E ok \in BOOLEAN :
        /\ ok => ~ctxCancelled
        /\ IF ok THEN pc' = "waitPod" /\ UNCHANGED runErr
                 ELSE RunReturns("error")
    /\ UNCHANGED <<procVars, kfVars, sshVars, cfgVars, waitVars, tunVars, li, runs>>

\* The kubelet reports the tunnel pod Ready: the watch delivers an event on
\* which condPodReady returns true.
PodBecomesReady ==
    /\ Running /\ "Pod" \in cluster /\ ~podReady
    /\ podReady' = TRUE
    /\ UNCHANGED <<procVars, kfVars, sshVars, cfgVars, waitVars, readyCh, service,
                   configMap, serviceAccount, pod, cluster, created,
                   deleteFailed, deleteLog, createLog, createAns, stopVars,
                   callVars>>

\* CreatePod, UntilWithoutRetry and the mapping of its error: a Ready event
\* gives nil; a closed watch channel gives ErrWatchClosed, reported as an
\* error; a done context gives Interrupted.
WaitPod ==
    /\ Running /\ pc = "waitPod"
    /\ \E ev \in {"ready", "closed", "ctx"} :
        /\ ev = "ready" => podReady
        /\ ev = "ctx" => ctxCancelled
        /\ CASE ev = "ready" -> pc' = "kfRun" /\ UNCHANGED runErr
             [] ev = "closed" -> RunReturns("error")
             [] ev = "ctx" -> RunReturns("Interrupted")
    /\ UNCHANGED <<procVars, kfVars, sshVars, cfgVars, waitVars, tunVars, li, runs>>

\* NewKubeForwarder and kf.Run(ctx); neither fails with a local port set.
RunKubeForwarder ==
    /\ Running /\ pc = "kfRun"
    /\ KFStart
    /\ pc' = "waitKf"
    /\ UNCHANGED <<procVars, sshVars, cfgVars, waitVars, tunVars, li, runErr, runs>>

\* A Run that waits for the port-forwarder's ready signal only.
WaitKubeForwarderIgnoresCtx ==
    /\ Running /\ pc = "waitKf"
    /\ kfReadyCh >= 1
    /\ pc' = "dial" /\ UNCHANGED runErr
    /\ UNCHANGED <<procVars, kfVars, sshVars, cfgVars, waitVars, tunVars, li, runs>>

\* A Run that closes its ready channel on the way out when ctx is done.
WaitKubeForwarderClosesReady ==
    /\ Running /\ pc = "waitKf"
    /\ \/ /\ kfReadyCh >= 1
          /\ pc' = "dial" /\ UNCHANGED <<runErr, readyCh>>
       \/ /\ ctxCancelled
          /\ readyCh' = CloseCount(readyCh)
          /\ RunReturns("ctxErr")
    /\ UNCHANGED <<procVars, kfVars, sshVars, cfgVars, waitVars, objVars, li, runs>>

\* A Run that goes on to the SSH dial without receiving from kf.Ready().
DialWithoutWaiting ==
    /\ Running /\ pc = "waitKf"
    /\ pc' = "dial" /\ UNCHANGED runErr
    /\ UNCHANGED <<procVars, kfVars, sshVars, cfgVars, waitVars, tunVars, li, runs>>

\* select { case <-kf.Ready(): ... case <-ctx.Done(): return nil, ctx.Err() }
WaitKubeForwarder ==
    /\ Running /\ pc = "waitKf"
    /\ \/ /\ kfReadyCh >= 1
          /\ pc' = "dial" /\ UNCHANGED runErr
       \/ /\ ctxCancelled
          /\ RunReturns("ctxErr")
    /\ UNCHANGED <<procVars, kfVars, sshVars, cfgVars, waitVars, tunVars, li, runs>>

\* A dial that stops retrying: a failed attempt with a live context makes
\* Dial return the attempt's error.
DialGivesUp ==
    /\ Running /\ pc = "dial"
    /\ \E ok \in BOOLEAN :
        /\ ok => (kfListener /\ kfPc = "session" /\ ~ctxCancelled)
        /\ IF ok
             THEN /\ sshClient' = "connected"
                  /\ pc' = "listen" /\ li' = 1
                  /\ UNCHANGED runErr
             ELSE /\ IF ctxCancelled
                       THEN RunReturns("Interrupted")
                       ELSE RunReturns("error")
                  /\ UNCHANGED <<sshClient, li>>
    /\ UNCHANGED <<procVars, kfVars, listeners, listenOk, task, tctxCancelled,
                   closerPc, cfgVars, waitVars, tunVars, runs>>

\* SSHTunnel.Dial: one attempt of the poll. The attempt succeeds only through
\* a bound local listener; after a failure it returns Interrupted if ctx is
\* done and is repeated otherwise.
Dial ==
    /\ Running /\ pc = "dial"
    /\ \E ok \in BOOLEAN :
        /\ ok => (kfListener /\ kfPc = "session" /\ ~ctxCancelled)
        /\ IF ok
             THEN /\ sshClient' = "connected"
                  /\ pc' = "listen" /\ li' = 1
                  /\ UNCHANGED runErr
             ELSE /\ IF ctxCancelled
                       THEN RunReturns("Interrupted")
                       ELSE UNCHANGED <<pc, runErr>>
                  /\ UNCHANGED <<sshClient, li>>
    /\ UNCHANGED <<procVars, kfVars, listeners, listenOk, task, tctxCancelled,
                   closerPc, cfgVars, waitVars, tunVars, runs>>

\* The listener RunPortMappings keeps for a mapping after o.sshClient.Listen:
\* on an error that is tolerated the pair is appended with a nil listener.
ListenResult(ok) == IF ok THEN "open" ELSE "nil"

\* A listen loop that returns its error without closing the listeners it
\* created before.
LeaveCreatedListeners(ls) == ls

\* for _, p := range pairs { p.l.Close() }: every listener created so far is
\* closed.
CloseCreatedListeners(ls) ==
    [i \in DOMAIN ls |-> IF ls[i] = "open" THEN "closed" ELSE ls[i]]

\* RunPortMappings, one iteration of the listen loop.
Listen ==
    /\ Running /\ pc = "listen" /\ li <= nMappings
    /\ \E ok \in BOOLEAN :
        /\ ok => sshClient = "connected"
        /\ IF ~ok /\ ~ContinueOnTunnelError
             THEN /\ listeners' = CloseCreatedListeners(listeners)
                  /\ RunReturns("error")
                  /\ UNCHANGED <<li, listenOk>>
             ELSE /\ listeners' = [listeners EXCEPT ![li] = ListenResult(ok)]
                  /\ listenOk' = IF ok THEN listenOk + 1 ELSE listenOk
                  /\ li' = li + 1
                  /\ UNCHANGED <<pc, runErr>>
    /\ UNCHANGED <<procVars, kfVars, sshClient, task, tctxCancelled, closerPc,
                   cfgVars, waitVars, tunVars, runs>>

\* RunPortMappings after the loop: g.Go for every pair, the goroutine that
\* watches tctx and ctx, return nil.
OpenTunnels ==
    /\ Running /\ pc = "listen" /\ li > nMappings
    /\ task' = [i \in 1..nMappings |-> "running"]
    /\ closerPc' = "select"
    /\ pc' = "closeReady"
    /\ UNCHANGED <<procVars, kfVars, sshClient, listeners, listenOk,
                   tctxCancelled, cfgVars, waitVars, tunVars, li, runErr, runs>>

\* close(o.readyCh); return o.readyCh, nil
CloseReady ==
    /\ Running /\ pc = "closeReady"
    /\ readyCh' = CloseCount(readyCh)
    /\ proc' = IF ClosePanics(readyCh) THEN "panic" ELSE proc
    /\ RunReturns("nil")
    /\ UNCHANGED <<ctxCancelled, kfVars, sshVars, cfgVars, waitVars, objVars, li, runs>>

TunnelRun ==
    \/ CreateService \/ CreateConfigMap \/ CreateServiceAccount
    \/ CreatePodObject \/ WatchPod \/ WaitPod
    \/ RunKubeForwarder \/ WaitKubeForwarder
    \/ Dial \/ Listen \/ OpenTunnels \/ CloseReady

(***************************************************************************)
(* The goroutines RunPortMappings starts                                   *)
(***************************************************************************)

tunnelRest == <<ctxCancelled, kfVars, sshClient, listenOk, cfgVars, waitVars, tunVars,
                callVars>>

\* p.f.Open(p.l) ends with an error of its accept loop: the errgroup cancels
\* tctx on the first error.
TaskFails(i) ==
    /\ Running /\ task[i] = "running" /\ listeners[i] = "open"
    /\ task' = [task EXCEPT ![i] = "failed"]
    /\ tctxCancelled' = TRUE
    /\ UNCHANGED <<proc, listeners, closerPc, tunnelRest>>

\* p.f.Open(nil), for a mapping whose listen failed: the accept on the nil
\* listener either is reported as an error or panics.
TaskNilListener(i) ==
    /\ Running /\ task[i] = "running" /\ listeners[i] = "nil"
    /\ \E panics \in BOOLEAN :
        /\ proc' = IF panics THEN "panic" ELSE proc
        /\ task' = [task EXCEPT ![i] = "failed"]
        /\ tctxCancelled' = TRUE
    /\ UNCHANGED <<listeners, closerPc, tunnelRest>>

\* p.f.Open(p.l) returns because its listener was closed.
TaskUnblocked(i) ==
    /\ Running /\ task[i] = "running" /\ listeners[i] = "closed"
    /\ task' = [task EXCEPT ![i] = "exited"]
    /\ UNCHANGED <<proc, listeners, tctxCancelled, closerPc, tunnelRest>>

\* tctx is derived from ctx: it is done when the group cancelled it or when
\* ctx is done.
TctxDone == tctxCancelled \/ ctxCancelled

\* select, case <-tctx.Done(): closeAll only if !ContinueOnTunnelError.
CloserTctxDone ==
    /\ Running /\ closerPc = "select" /\ TctxDone
    /\ closerPc' = IF ~ContinueOnTunnelError THEN "closeAll" ELSE "done"
    /\ UNCHANGED <<proc, listeners, task, tctxCancelled, tunnelRest>>

\* select, case <-ctx.Done(): closeAll.
CloserCtxDone ==
    /\ Running /\ closerPc = "select" /\ ctxCancelled
    /\ closerPc' = "closeAll"
    /\ UNCHANGED <<proc, listeners, task, tctxCancelled, tunnelRest>>

\* A closeAll that waits for the group without closing any forwarder.
CloseAllKeepsListeners ==
    /\ Running /\ closerPc = "closeAll"
    /\ closerPc' = "wait"
    /\ UNCHANGED <<proc, listeners, task, tctxCancelled, tunnelRest>>

\* closeAll: p.f.Close() for every pair ...
CloseAll ==
    /\ Running /\ closerPc = "closeAll"
    /\ listeners' = [i \in 1..nMappings |->
            IF listeners[i] = "open" THEN "closed" ELSE listeners[i]]
    /\ closerPc' = "wait"
    /\ UNCHANGED <<proc, task, tctxCancelled, tunnelRest>>

\* ... then g.Wait().
CloserWait ==
    /\ Running /\ closerPc = "wait"
    /\ \A i \in 1..nMappings : task[i] # "running"
    /\ closerPc' = "done"
    /\ tctxCancelled' = TRUE
    /\ UNCHANGED <<proc, listeners, task, tunnelRest>>

Tunnels ==
    \/ \E i \in 1..nMappings : TaskFails(i) \/ TaskNilListener(i) \/ TaskUnblocked(i)
    \/ CloserTctxDone \/ CloserCtxDone \/ CloseAll \/ CloserWait

(***************************************************************************)
(* Tunnel.Stop                                                             *)
(***************************************************************************)

Field(kind) ==
    CASE kind = "Service" -> service
      [] kind = "Pod" -> pod
      [] kind = "ServiceAccount" -> serviceAccount
      [] kind = "ConfigMap" -> configMap

\* CleanupService: if o.service != nil { delete the Service }; return nil.
CleanupService == IF service # "nil" THEN <<"Service">> ELSE <<>>

\* CleanupPod: if o.pod != nil { delete the Pod }; if o.serviceAccount != nil
\* { delete the ServiceAccount }; return nil.
CleanupPod ==
    (IF pod # "nil" THEN <<"Pod">> ELSE <<>>)
        \o (IF serviceAccount # "nil" THEN <<"ServiceAccount">> ELSE <<>>)

\* CleanupConfigMap: delete the ConfigMap; o.configMap.Name is read without
\* a nil check, so a nil field panics before any delete is issued.
CleanupConfigMap == IF configMap # "nil" THEN <<"ConfigMap">> ELSE <<>>
CleanupConfigMapPanics == configMap = "nil"

\* The deletes Stop issues, in order: no Cleanup function returns an error,
\* so none of the three is skipped.
StopDeletes == CleanupService \o CleanupPod \o CleanupConfigMap

\* client.Delete(ctx, obj.Name, ...): the delete of the empty object fails on
\* its empty name, the delete of an object that does not exist fails, and any
\* delete fails when the API server (failing) refuses it.
DeleteOk(kind, failing) ==
    /\ Field(kind) = "set"
    /\ kind \in cluster
    /\ kind \notin failing

Issued == {StopDeletes[i] : i \in 1..Len(StopDeletes)}

\* A context given to Stop is done if it is the session context and that
\* was cancelled; context.Background() is never done.
CtxDone(c) == c = "session" /\ ctxCancelled

\* A request made with a done context fails in the client, whatever the API
\* server would answer.
Refused(c, failing) == IF CtxDone(c) THEN Kinds ELSE failing

\* A Stop whose Cleanup functions return the error of a failed delete, so
\* that Stop returns at the first of them.
AttemptedUntilFailure(failing) ==
    LET UpTo(n) == SubSeq(StopDeletes, 1, n)
        Bad == {i \in 1..Len(StopDeletes) : ~DeleteOk(StopDeletes[i], failing)}
    IN  IF Bad = {} THEN StopDeletes
        ELSE UpTo(CHOOSE i \in Bad : \A j \in Bad : i <= j)

\* The deletes one call of Stop attempts when the deletes of the kinds in
\* failing fail: every Cleanup function logs the error of its delete and
\* returns nil, so Stop goes through all three.
Attempted(failing) == StopDeletes

\* Tunnel.Stop(ctx) as a whole; c is the context it is given, failing are the
\* kinds whose delete the API server refuses during this call.  Stop returns
\* what CleanupConfigMap returns, which is nil.
TunnelStop(c, failing) ==
    LET refused == Refused(c, failing)
        att == Attempted(refused)
        iss == {att[i] : i \in 1..Len(att)}
    IN  /\ cluster' = cluster \ {k \in iss : DeleteOk(k, refused)}
        /\ deleteFailed' = (\E k \in iss : ~DeleteOk(k, refused))
        /\ deleteLog' = att
        /\ stopCtxDone' = CtxDone(c)
        /\ stopErr' = IF CleanupConfigMapPanics THEN "none" ELSE "nil"
        /\ UNCHANGED <<readyCh, service, configMap, serviceAccount, pod,
                       podReady, created, createLog, createAns>>

(***************************************************************************)
(* Spec: the tunnel command                                                *)
(***************************************************************************)

\* The configuration Complete leaves for the example command line.
Completed ==
    /\ Name = "myservice"
    /\ PortMappings = ExampleMappings(nMappings)
    /\ RemoteSSHPort = GetFreeSSHPortInContainer(PortMappings).port

\* Complete, with cmdutil.CheckErr on its result: the name and the mappings
\* are taken from the arguments, the SSH port is chosen; an error ends the
\* process with exit code 1.
Complete ==
    /\ Running /\ pc = "complete"
    /\ LET res == GetFreeSSHPortInContainer(PortMappings)
       IN  /\ RemoteSSHPort' = res.port
           /\ proc' = IF res.err THEN "exit1" ELSE proc
           /\ pc' = IF res.err THEN "usage" ELSE "start"
    /\ UNCHANGED <<ctxCancelled, kfVars, sshVars, ContinueOnTunnelError,
                   nMappings, Name, PortMappings, waitVars, tunVars, li,
                   runErr, runs>>

cmdRest == <<ctxCancelled, kfVars, sshVars, cfgVars, waitVars, tunVars, li, runErr>>

\* tun := NewTunnel(cfg); ctx with the kill and interrupt wrappers;
\* tun.Run(ctx)
CmdRun ==
    /\ Running /\ pc = "start"
    /\ pc' = "createService"
    /\ runs' = runs + 1
    /\ UNCHANGED <<proc, cmdRest>>

\* if _, err := tun.Run(ctx); err != nil { cmdutil.CheckErr(err) }: CheckErr
\* prints the error and exits with code 1.  Otherwise: defer tun.Stop(...).
CmdCheckErr ==
    /\ Running /\ pc = "checkErr"
    /\ IF runErr # "nil"
         THEN proc' = "exit1" /\ UNCHANGED pc
         ELSE pc' = "waitReady" /\ UNCHANGED proc
    /\ UNCHANGED <<runs, cmdRest>>

\* <-tun.Ready()
CmdWaitReady ==
    /\ Running /\ pc = "waitReady" /\ readyCh >= 1
    /\ pc' = "waitCtx"
    /\ UNCHANGED <<proc, runs, cmdRest>>

\* A command that gives Stop the session context.
CmdStopCtxSession == "session"

\* defer tun.Stop(context.Background())
CmdStopCtx == "background"

\* <-ctx.Done(); the function returns: the deferred tun.Stop runs with
\* context.Background(), then the command returns and the process ends.
CmdShutdown ==
    /\ Running /\ pc = "waitCtx" /\ ctxCancelled
    /\ \E failing \in SUBSET Kinds : TunnelStop(CmdStopCtx, failing)
    /\ proc' = IF CleanupConfigMapPanics THEN "panic" ELSE "exit0"
    /\ pc' = "stopped"
    /\ UNCHANGED <<ctxCancelled, kfVars, sshVars, cfgVars, waitVars, li, runErr, runs>>

Command == CmdRun \/ CmdCheckErr \/ CmdWaitReady \/ CmdShutdown

Init ==
    /\ proc = "running" /\ ctxCancelled = FALSE
    /\ KFInit /\ waitErr = "none"
    /\ ContinueOnTunnelError \in BOOLEAN
    /\ nMappings \in 1..MaxMappings
    /\ Completed
    /\ SSHIdle /\ TunnelNew
    /\ cluster \in {{}, {"ServiceAccount"}}
    /\ pc = "start" /\ li = 0 /\ runErr = "none" /\ runs = 0

Next ==
    \/ Command
    \/ TunnelRun
    \/ PodBecomesReady
    \/ Tunnels
    \/ KFWorker
    \/ WatcherCtxDone
    \/ KFStop(Watcher)
    \/ Cancel

Spec == Init /\ [][Next]_vars

(***************************************************************************)
(* SpecRun: one call of Tunnel.Run for one mapping, with the               *)
(* port-forwarder it starts and the cancellation of its context.           *)
(***************************************************************************)

InitRun ==
    /\ proc = "running" /\ ctxCancelled = FALSE
    /\ KFInit /\ waitErr = "none"
    /\ ContinueOnTunnelError \in BOOLEAN
    /\ nMappings = 1
    /\ Completed
    /\ SSHIdle /\ TunnelNew
    /\ cluster \in {{}, {"ServiceAccount"}}
    /\ pc = "start" /\ li = 0 /\ runErr = "none" /\ runs = 0

NextRun ==
    \/ CmdRun
    \/ TunnelRun
    \/ PodBecomesReady
    \/ KFWorker
    \/ WatcherCtxDone
    \/ KFStop(Watcher)
    \/ Cancel

SpecRun == InitRun /\ [][NextRun]_vars

\* Fairness of SpecRun: the Go scheduler runs the goroutine that called Run
\* whenever it can take a step; it promises nothing about what the cluster
\* or the network answers.
LiveSpecRun == SpecRun /\ WF_vars(TunnelRun)

(***************************************************************************)
(* SpecApi: a Tunnel used through its API by one sequential caller.  A     *)
(* call is one action; the transports a Run starts are not followed here.  *)
(***************************************************************************)

\* The steps of Run at which it can return an error, in the order taken.
RunSteps == <<"createService", "createConfigMap", "createSA", "createPod",
              "watch", "waitPod", "waitKf", "dial", "listen", "closeReady">>

Pos(step) == CHOOSE i \in 1..Len(RunSteps) : RunSteps[i] = step

\* Tunnel.Run(ctx) as a whole: it takes its steps in order up to failAt, where
\* it returns an error ("closeReady": it fails nowhere).  byCtx: the step
\* fails because ctx is cancelled while Run is at it.
RunCall(failAt, byCtx) ==
    LET past(step) == Pos(step) < Pos(failAt)
        saExists == "ServiceAccount" \in cluster
        made == {k \in Kinds :
                    \/ k = "Service" /\ past("createService")
                    \/ k = "ConfigMap" /\ past("createConfigMap")
                    \/ k = "ServiceAccount" /\ past("createSA") /\ ~saExists
                    \/ k = "Pod" /\ past("createPod")}
        reached(step) == Pos(step) <= Pos(failAt)
    IN  /\ ~ctxCancelled \/ failAt = "createService"
        /\ made \cap cluster = {}
        /\ byCtx => failAt \in {"waitPod", "waitKf", "dial"}
        /\ ~byCtx => failAt \notin {"waitKf", "dial"}
        /\ failAt = "listen" => ~ContinueOnTunnelError
        /\ service' = IF reached("createService")
                        THEN Created(past("createService")) ELSE service
        /\ configMap' = IF reached("createConfigMap")
                          THEN Created(past("createConfigMap")) ELSE configMap
        /\ serviceAccount' = IF reached("createSA")
                               THEN Created(past("createSA") /\ ~saExists)
                               ELSE serviceAccount
        /\ pod' = IF reached("createPod")
                    THEN Created(past("createPod")) ELSE pod
        /\ cluster' = cluster \cup made
        /\ created' = created \cup made
        /\ createLog' =
              <<getService(Name, servicePorts(PortMappings))>>
              \o (IF reached("createConfigMap")
                     THEN <<getConfigMap(Name)>> ELSE <<>>)
              \o (IF reached("createSA")
                     THEN <<getServiceAccount(Name)>> ELSE <<>>)
              \o (IF reached("createPod") THEN <<PodObject>> ELSE <<>>)
        /\ createAns' =
              <<IF past("createService") THEN "ok" ELSE "error">>
              \o (IF reached("createConfigMap")
                     THEN <<IF past("createConfigMap") THEN "ok" ELSE "error">>
                     ELSE <<>>)
              \o (IF reached("createSA")
                     THEN <<IF ~past("createSA") THEN "error"
                            ELSE IF saExists THEN "exists" ELSE "ok">>
                     ELSE <<>>)
              \o (IF reached("createPod")
                     THEN <<IF past("createPod") THEN "ok" ELSE "error">>
                     ELSE <<>>)
        /\ podReady' = (podReady \/ past("waitPod"))
        /\ ctxCancelled' = (ctxCancelled \/ byCtx)
        /\ runErr' = CASE failAt = "closeReady" -> "nil"
                       [] failAt = "waitKf" -> "ctxErr"
                       [] failAt \in {"waitPod", "dial"} /\ byCtx -> "Interrupted"
                       [] OTHER -> "error"
        /\ readyCh' = IF failAt = "closeReady" THEN CloseCount(readyCh)
                                               ELSE readyCh
        /\ proc' = IF failAt = "closeReady" /\ ClosePanics(readyCh)
                     THEN "panic" ELSE proc

\* The caller calls tun.Run(ctx).
ApiRun ==
    /\ Running /\ pc = "api" /\ runs < MaxRuns
    /\ \E failAt \in {RunSteps[i] : i \in 1..Len(RunSteps)}, byCtx \in BOOLEAN :
            RunCall(failAt, byCtx)
    /\ runs' = runs + 1
    /\ UNCHANGED <<kfVars, sshVars, cfgVars, waitVars, deleteFailed, deleteLog,
                   stopVars, pc, li>>

\* The caller calls tun.Stop(context.Background()).
ApiStop ==
    /\ Running /\ pc = "api"
    /\ \E c \in {"background", "session"}, failing \in SUBSET Kinds :
            TunnelStop(c, failing)
    /\ proc' = IF CleanupConfigMapPanics THEN "panic" ELSE proc
    /\ UNCHANGED <<ctxCancelled, kfVars, sshVars, cfgVars, waitVars, callVars>>

\* portforward.WaitPodReady(ctx, ...) for the tunnel's pod, as a whole.  ev is
\* what ends it: the client or the watch request fails ("fail", the only
\* outcome when ctx is done at the call), a Ready event arrives ("ready"), the
\* watch channel is closed ("closed"), or ctx is cancelled while it waits
\* ("ctx").  In the last case UntilWithoutRetry returns ErrWaitTimeout and
\* the function returns nil because ctx.Err() != nil.
WaitPodReady(ev) ==
    /\ ctxCancelled => ev = "fail"
    /\ ev = "ready" => ("Pod" \in cluster /\ podReady)
    /\ waitErr' = CASE ev = "ready" -> "nil"
                     [] ev = "ctx" -> "nil"
                     [] OTHER -> "error"
    /\ ctxCancelled' = (ctxCancelled \/ ev = "ctx")

\* The caller calls WaitPodReady.
ApiWaitPodReady ==
    /\ Running /\ pc = "api"
    /\ \E ev \in {"fail", "ready", "closed", "ctx"} : WaitPodReady(ev)
    /\ UNCHANGED <<proc, kfVars, sshVars, cfgVars, tunVars, callVars>>

InitApi ==
    /\ proc = "running" /\ ctxCancelled = FALSE
    /\ KFInit /\ waitErr = "none"
    /\ ContinueOnTunnelError \in BOOLEAN
    /\ nMappings \in 1..MaxMappings
    /\ Completed
    /\ SSHIdle /\ TunnelNew
    /\ cluster \in {{}, {"ServiceAccount"}}
    /\ pc = "api" /\ li = 0 /\ runErr = "none" /\ runs = 0

NextApi == ApiRun \/ ApiStop \/ ApiWaitPodReady \/ Cancel

SpecApi == InitApi /\ [][NextApi]_vars

(***************************************************************************)
(* SpecKF: a KubeForwarder used directly                                   *)
(***************************************************************************)

InitKF ==
    /\ proc = "running" /\ ctxCancelled = FALSE
    /\ KFInit /\ waitErr = "none"
    /\ ContinueOnTunnelError = FALSE /\ nMappings = 1
    /\ Completed
    /\ SSHIdle /\ TunnelNew /\ cluster = {}
    /\ pc = "kf" /\ li = 0 /\ runErr = "none" /\ runs = 0

\* The caller's hereToKube.Run(ctx).
KFRunCall ==
    /\ Running /\ pc = "kf"
    /\ KFStart
    /\ pc' = "kfRunning"
    /\ UNCHANGED <<procVars, sshVars, cfgVars, waitVars, tunVars, li, runErr, runs>>

NextKF ==
    \/ KFRunCall
    \/ KFWorker
    \/ WatcherCtxDone
    \/ \E s \in Callers : StopCall(s)
    \/ \E s \in Stoppers : KFStop(s)
    \/ Cancel

SpecKF == InitKF /\ [][NextKF]_vars

\* Fairness of SpecKF: the Go scheduler runs every goroutine that can take a
\* step; it promises nothing about the outcome of a dial or a listen.
LiveSpecKF ==
    /\ SpecKF
    /\ WF_vars(KFWorker)
    /\ WF_vars(WatcherCtxDone)
    /\ \A s \in Stoppers : WF_vars(KFStop(s))

(***************************************************************************)
(* SpecFn: the command from its arguments to the creates of Run, for every *)
(* name and list of mappings within the bounds.                            *)
(***************************************************************************)

Names == {"a", "b"}

InitFn ==
    /\ proc = "running" /\ ctxCancelled = FALSE
    /\ KFInit /\ waitErr = "none"
    /\ ContinueOnTunnelError = FALSE
    /\ nMappings \in 1..MaxArgs
    /\ Name \in Names
    /\ PortMappings \in ParseMappings(nMappings)
    /\ RemoteSSHPort = 0
    /\ SSHIdle /\ TunnelNew /\ cluster = {}
    /\ pc = "complete" /\ li = 0 /\ runErr = "none" /\ runs = 0

NextFn ==
    \/ Complete
    \/ CmdRun
    \/ CreateService
    \/ CreateConfigMap
    \/ CreateServiceAccount
    \/ CreatePodObject

SpecFn == InitFn /\ [][NextFn]_vars

(***************************************************************************)
(* Claims                                                                  *)
(***************************************************************************)

Ended == proc \in {"exit0", "exit1"}
InLoop == kfPc \in {"select", "dial", "listen", "closeReady", "session",
                    "lock", "read", "unlock"}

\* C1: if Run fails before readiness, then once the command has finished
\* every cluster object that Run created has been deleted.
C1_FailedRunLeavesNothing ==
    (Ended /\ runErr \notin {"none", "nil"}) => created \cap cluster = {}

\* C2: after a shutdown in which Stop was called or the session context was
\* cancelled, and in which no delete call failed, none of the objects Run
\* created remains in the cluster.
C2_ShutdownLeavesNothing ==
    (Ended /\ (pc = "stopped" \/ ctxCancelled) /\ ~deleteFailed)
        => created \cap cluster = {}

\* C3: the KubeForwarder's ready channel is closed at most once: no session
\* of the re-dial loop closes the channel a second time.
C3_ReadyClosedOnce == kfReadyCh <= 1

\* C4: the tunnel's ready channel is closed only after at least one remote
\* listener was opened, and after one was opened for every mapping when
\* ContinueOnTunnelError is false.
C4_ReadyAfterListener ==
    readyCh >= 1 =>
        /\ listenOk >= 1
        /\ ~ContinueOnTunnelError => listenOk = nMappings

\* C5: over any sequence of Run and Stop calls on one Tunnel, its ready
\* channel is closed at most once.
C5_TunnelReadyClosedOnce == readyCh <= 1

\* C6: once the context is cancelled after the tunnels were started, the
\* goroutine that watches the contexts ends only with every remote listener
\* closed and the SSH client closed.
C6_CancelClosesAll ==
    (ctxCancelled /\ closerPc = "done") =>
        /\ \A i \in 1..nMappings : listeners[i] # "open"
        /\ sshClient = "closed"

\* C7: after Stop is called on a forwarder whose worker is in its loop, with
\* the context not cancelled, Done is eventually closed.  (A later
\* cancellation or the end of the process also counts as an end here.)
C7_StopLeadsToDone ==
    ((\E s \in Callers : stopPc[s] # "idle") /\ InLoop /\ ~ctxCancelled)
        ~> (doneCh >= 1 \/ ctxCancelled \/ ~Running)

\* C8: for any number of Stop calls, sequential or concurrent, stopCh is
\* closed exactly once (never twice, and once as soon as any call has
\* returned, with shouldStop set before), and shouldStop never goes back to
\* false.
C8_StopOnce ==
    /\ [](/\ stopCh <= 1
          /\ stopCh = 1 => shouldStop
          /\ \A s \in Stoppers : stopPc[s] = "returned" => stopCh = 1)
    /\ [][shouldStop => shouldStop']_vars

\* C8 witness: the watcher and a caller have both returned from Stop.
C8_TwoStopsReturned ==
    /\ stopPc[Watcher] = "returned"
    /\ \E s \in Callers : stopPc[s] = "returned"
    /\ stopCh = 1 /\ shouldStop

\* C9: doneCh is closed exactly when the worker has returned, at most once,
\* and never while the listener of a session is bound.
C9_DoneIffReturned ==
    /\ (kfPc = "returned") <=> (doneCh >= 1)
    /\ doneCh <= 1
    /\ doneCh >= 1 => ~kfListener

\* C10: when a session was lost after the tunnel became ready and the
\* re-dial loop has bound the listener of a new session, the tunnel has a
\* working SSH client.
C10_RedialKeepsTunnel ==
    (Running /\ readyCh >= 1 /\ kfLost /\ kfListener) => sshClient = "connected"

\* C11: when the command has shut down through Stop, the remote listeners
\* were closed, the SSH client was closed and the port-forwarder's Done was
\* closed before the deletes, and the deletes were issued in the order Pod,
\* Service, ConfigMap, ServiceAccount.
C11_ShutdownOrder ==
    (pc = "stopped" /\ Len(deleteLog) = 4) =>
        /\ \A i \in 1..nMappings : listeners[i] # "open"
        /\ sshClient = "closed"
        /\ doneCh >= 1
        /\ deleteLog = <<"Pod", "Service", "ConfigMap", "ServiceAccount">>

\* C12: when the command has ended, an Interrupted outcome of Run gave exit
\* code 0 with the cluster cleanup performed, a nil outcome gave exit code 0,
\* and any other error of Run gave exit code 1.
C12_InterruptExitsZero ==
    Ended =>
        /\ runErr = "Interrupted" => (proc = "exit0" /\ pc = "stopped")
        /\ runErr = "nil" => proc = "exit0"
        /\ runErr = "error" => proc = "exit1"

\* C13: when Run returns from the wait for the port-forwarder's ready signal
\* or from the SSH dial, which it does only because ctx was cancelled, the
\* error it returns is Interrupted.
C13_CancelGivesInterrupted ==
    [][(pc \in {"waitKf", "dial"} /\ pc' = "checkErr")
            => runErr' = "Interrupted"]_vars

\* C14: the pod-readiness wait that ends with an error while ctx is cancelled
\* returns Interrupted, also when the watch channel was closed together with
\* the cancellation.
C14_PodWaitInterrupted ==
    [][(pc = "waitPod" /\ pc' = "checkErr" /\ ctxCancelled)
            => runErr' = "Interrupted"]_vars

TunnelsStarted == closerPc # "none"

\* C15: with ContinueOnTunnelError, once RunPortMappings has started the
\* tunnels, a mapping whose listen failed has no listener and no accept task,
\* and every mapping whose listen succeeded has its accept task.
C15_FailedMappingSkipped ==
    (ContinueOnTunnelError /\ TunnelsStarted) =>
        \A i \in 1..nMappings :
            /\ listeners[i] \in {"nil", "none"} => task[i] = "none"
            /\ listeners[i] \in {"open", "closed"} => task[i] # "none"

\* The listen of mapping li failed in a Run without ContinueOnTunnelError.
ListenFailed == ~ContinueOnTunnelError /\ li >= 1 /\ runErr = "error"

\* C16: without ContinueOnTunnelError, when the listen of the k-th mapping
\* has failed, every listener opened for the mappings before it is closed,
\* Run has returned an error, no accept task and no watching goroutine was
\* started, and the ready channel was not closed.
C16_ListenFailureClosesAll ==
    /\ [](ListenFailed =>
            /\ \A i \in 1..nMappings :
                /\ listeners[i] = (IF i < li THEN "closed" ELSE "none")
                /\ task[i] = "none"
            /\ closerPc = "none"
            /\ readyCh = 0
            /\ pc = "checkErr")
    /\ [][(pc = "listen" /\ pc' = "checkErr") => ListenFailed']_vars

\* C16 witness: the listen of the second mapping failed after the first
\* listener was opened, and the command has exited on Run's error.
C16_SecondListenFailed ==
    ListenFailed /\ li = 2 /\ listeners[1] = "closed" /\ proc = "exit1"

\* C17: without ContinueOnTunnelError, when an accept task has failed and the
\* watching goroutine has finished, no listener is open and no task runs;
\* with ContinueOnTunnelError no open listener is closed as long as ctx is
\* not cancelled, whatever tasks fail.
C17_CrossKill ==
    /\ []((~ContinueOnTunnelError /\ closerPc = "done")
            => \A i \in 1..nMappings :
                    listeners[i] # "open" /\ task[i] # "running")
    /\ [][(ContinueOnTunnelError /\ ~ctxCancelled')
            => \A i \in 1..nMappings :
                    listeners[i] = "open" => listeners'[i] = "open"]_vars

\* C17 witness: two tunnels ran, one accept task failed while ctx was not
\* cancelled, and the other tunnel was closed and its task has exited.
C17_PeerClosed ==
    /\ ~ContinueOnTunnelError /\ ~ctxCancelled /\ closerPc = "done"
    /\ \E i, j \in 1..nMappings :
        /\ task[i] = "failed"
        /\ task[j] = "exited" /\ listeners[j] = "closed"

\* C18: the port-forwarder is started only when the pod has been reported
\* Ready, and Run is at the SSH dial, or past it, only when the forwarder's
\* ready channel has been closed.
C18_StartOrder ==
    /\ kfPc # "new" => podReady
    /\ (pc = "dial" \/ sshClient # "nil") => kfReadyCh >= 1

\* C18 witness: the SSH client was dialled through a ready port-forward to a
\* ready pod.
C18_DialledAfterReady ==
    sshClient = "connected" /\ kfPc = "session" /\ kfReadyCh = 1 /\ podReady

\* C19: the tunnel's ready channel is closed only by the step of Run that
\* follows a successful Dial and a RunPortMappings that returned nil, and a
\* Run that returns has closed it if and only if it returns nil.
C19_ReadyIffNil ==
    [][/\ readyCh' # readyCh =>
            /\ pc = "closeReady" /\ runErr' = "nil"
            /\ sshClient # "nil" /\ TunnelsStarted
       /\ (pc # "checkErr" /\ pc' = "checkErr") =>
            (runErr' = "nil" <=> readyCh' # readyCh)]_vars

\* C19 witness: Run has returned nil with the ready channel closed.
C19_ReturnedNilReady ==
    pc = "waitReady" /\ runErr = "nil" /\ readyCh = 1 /\ sshClient # "nil"

\* C20: the worker leaves its loop only by a break taken when Stop was
\* requested or ctx is cancelled; after a session that ended while the worker
\* read shouldStop false, and after a failed attempt, it is back at the select
\* of the loop.
C20_LoopExit ==
    [][/\ (InLoop /\ ~InLoop') =>
            (kfPc' = "closeDone" /\ (shouldStop \/ ctxCancelled))
       /\ (kfPc = "unlock" /\ kfPc' # kfPc /\ ~wShouldStop) => kfPc' = "select"
       /\ (kfPc = "select" /\ kfPc' # kfPc /\ ~ctxCancelled) => kfPc' = "dial"]_vars

\* C20 witness: after a session was lost, with no Stop and no cancellation,
\* the worker is dialling a new session.
C20_Redialling ==
    kfLost /\ kfPc = "dial" /\ ~shouldStop /\ stopCh = 0 /\ ~ctxCancelled


\* C21: SSHTunnel.Dial retries after every failed attempt without a limit, so
\* it is left in two ways only: with nil after an attempt succeeded, the SSH
\* client being set, or with Interrupted, and then the context is cancelled.
C21_DialOutcomes ==
    [][(pc = "dial" /\ pc' # "dial") =>
          \/ pc' = "listen" /\ sshClient' = "connected" /\ runErr' = "none"
          \/ pc' = "checkErr" /\ runErr' = "Interrupted" /\ ctxCancelled]_vars

\* Dial was interrupted: the forwarder was ready, no SSH client was obtained.
C21_DialInterrupted ==
    /\ pc = "checkErr" /\ runErr = "Interrupted"
    /\ kfReadyCh >= 1 /\ sshClient = "nil" /\ pod = "set" /\ podReady

\* C22: every delete Tunnel.Stop issues during the shutdown of the command is
\* made with a context that is not the session context: although the session
\* context is cancelled by then, no delete is skipped and none is issued with
\* a context that is already done.
C22_DeletesWithFreshContext ==
    pc = "stopped" =>
        /\ ~stopCtxDone
        /\ \A k \in Kinds :
              Field(k) # "nil" => \E i \in 1..Len(deleteLog) : deleteLog[i] = k

\* The command shut down after a cancellation and every delete went through.
C22_ShutdownDeleted ==
    /\ pc = "stopped" /\ ctxCancelled /\ ~stopCtxDone
    /\ Len(deleteLog) = 4 /\ ~deleteFailed /\ created \cap cluster = {}

\* C23: in Tunnel.Stop the failure of one delete does not keep the deletes of
\* the other objects Run created from being attempted.
C23_AllDeletesAttempted ==
    (pc = "stopped" /\ deleteFailed) =>
        \A k \in created : \E i \in 1..Len(deleteLog) : deleteLog[i] = k

\* The delete of the Service, the first one, failed and the delete of the
\* ConfigMap, the last one, was made and succeeded.
C23_DeletedAfterFailure ==
    /\ pc = "stopped" /\ created = Kinds
    /\ "Service" \in cluster /\ "ConfigMap" \notin cluster

\* C24: Tunnel.Stop returns a non-nil error if one of its deletes failed and
\* nil only if every delete it attempted succeeded.
C24_StopReportsFailure ==
    pc = "stopped" => (stopErr = "nil" <=> ~deleteFailed)

\* C25: Tunnel.Run issues its creates in the order ServiceAccount, ConfigMap,
\* Pod, Service: at any time the creates issued so far are a prefix of that
\* order.
C25_CreateOrder ==
    LET order == <<"ServiceAccount", "ConfigMap", "Pod", "Service">>
        issued == KindsOf(createLog)
    IN  /\ Len(issued) <= Len(order)
        /\ \A i \in 1..Len(issued) : issued[i] = order[i]

\* C26: a Run that reached readiness issued exactly one create for each of
\* the Pod, the Service, the ConfigMap and the ServiceAccount, every object
\* named <name> and labelled io.github.kubetnl=<name>, the Service with one
\* port per mapping.
C26_ObjectsOfReadyTunnel ==
    readyCh >= 1 =>
        /\ \A k \in Kinds :
              Cardinality({i \in 1..Len(createLog) : createLog[i].Kind = k}) = 1
        /\ \A i \in 1..Len(createLog) :
              /\ createLog[i].Name = Name
              /\ createLog[i].Labels = Labels(Name)
              /\ createLog[i].Kind = "Service" =>
                    Len(createLog[i].Ports) = Len(PortMappings)

\* A tunnel with two mappings is ready.
C26_ReadyWithTwoMappings ==
    readyCh >= 1 /\ Len(PortMappings) = 2 /\ Len(createLog) = 4

C29_ServicePortsOfMappings ==
    \A k \in 1..Len(createLog) :
        createLog[k].Kind = "Service" =>
            LET svc == createLog[k]
                N == Len(PortMappings)
                decimal == <<"0", "1", "2", "3", "4", "5", "6", "7", "8", "9">>
            IN  /\ DOMAIN svc.Ports = 1..N
                /\ \A i \in 1..N :
                      LET m == PortMappings[i]
                      IN  /\ svc.Ports[i].Name = decimal[i]
                          /\ svc.Ports[i].Port = m.ContainerPortNumber
                          /\ svc.Ports[i].TargetPort = m.ContainerPortNumber
                          /\ svc.Ports[i].Protocol =
                                CASE m.Protocol = "UDP" -> "UDP"
                                  [] m.Protocol = "SCTP" -> "SCTP"
                                  [] OTHER -> "TCP"
                /\ svc.Selector = [l \in {"io.github.kubetnl"} |-> Name]

\* The Service was sent for mappings of which one is UDP, a later one SCTP
\* and a still later one TCP.
C29_MixedProtocolsSent ==
    /\ Len(createLog) >= 1 /\ createLog[1].Kind = "Service"
    /\ \E i, j, k \in 1..Len(PortMappings) :
          /\ i < j /\ j < k
          /\ PortMappings[i].Protocol = "UDP"
          /\ PortMappings[j].Protocol = "SCTP"
          /\ PortMappings[k].Protocol = "TCP"

\* C30: Stop sets shouldStop before it closes stopCh.  So when a session
\* ends because stopCh was closed (no session was lost before), shouldStop is
\* already true, the worker's read of it that follows yields true, and the
\* worker leaves the loop instead of starting a new session.
C30_StopEndsWorker ==
    /\ [](stopCh >= 1 => shouldStop)
    /\ []((~kfLost /\ kfPc \in {"lock", "read"}) => shouldStop)
    /\ []((~kfLost /\ kfPc = "unlock") => wShouldStop)
    /\ [][(~kfLost /\ kfPc = "unlock") => kfPc' \in {"unlock", "closeDone"}]_vars

\* The session was ended by a Stop and the worker has left the loop without
\* the context being cancelled.
C30_WorkerLeftAfterStop ==
    /\ ~kfLost /\ ~ctxCancelled /\ kfReadyCh = 1 /\ stopCh = 1
    /\ kfPc = "closeDone"

\* Forwarder.Open on the listener of mapping i accepts a connection made to
\* the container port and pairs it with a connection to the target: the
\* remote listener is open, its accept task runs and the SSH client that
\* carries the connection is alive.
Accepts(i) ==
    /\ listeners[i] = "open"
    /\ task[i] = "running"
    /\ sshClient = "connected"

\* No failure of the environment has happened since the tunnel was started:
\* no session was lost and no accept task has ended.
Undisturbed ==
    /\ Running /\ ~kfLost /\ ~tctxCancelled
    /\ \A i \in 1..nMappings : task[i] \notin {"failed", "exited"}

\* C28: once the tunnel's ready channel is closed and the context is not
\* cancelled, a connection made to a mapped container port is accepted by the
\* tunnel and paired with a connection to the target (so that the HTTP GET
\* of the test is answered by the local handler).
C28_ReadyTunnelAccepts ==
    (readyCh >= 1 /\ ~ctxCancelled /\ Undisturbed) =>
        \A i \in 1..nMappings : Accepts(i)

\* C31: Tunnel.Stop can be called after Run failed at any step: it never
\* dereferences an unset object among service, pod, serviceAccount and
\* configMap, so after a failed Run the process never panics with the
\* configMap field still nil.
C31_StopAfterFailedRun ==
    runErr \notin {"none", "nil"} => ~(proc = "panic" /\ configMap = "nil")

\* C32: when Run returns an error after it started the port-forwarder (from
\* the SSH dial or from a failed remote listen), it has released what it
\* started: the port-forwarder was stopped (stopCh is closed) and the SSH
\* client, if one was dialled, is closed.
C32_FailedRunReleasesTransports ==
    [][(pc \in {"dial", "listen"} /\ pc' = "checkErr") =>
          (stopCh' >= 1 /\ sshClient' \in {"nil", "closed"})]_vars

\* The goroutine that called Tunnel.Run is inside Run, before readiness.
InRun == pc \in {"createService", "createConfigMap", "createSA", "createPod",
                 "watch", "waitPod", "kfRun", "waitKf", "dial", "listen",
                 "closeReady"}

\* C33: if ctx is cancelled while Tunnel.Run is in progress before readiness,
\* Run eventually returns: it does not stay blocked in the pod watch, in the
\* wait for the forwarder's ready signal or in the SSH dial retry loop.  (The
\* end of the process also ends the wait.)
C33_CancelledRunReturns ==
    (ctxCancelled /\ InRun) ~> (~InRun \/ ~Running)

\* ctx is cancelled while Run waits for the forwarder's ready signal, which
\* has not been given.
C33_CancelledWhileWaiting ==
    ctxCancelled /\ pc = "waitKf" /\ kfReadyCh = 0 /\ Running

\* C34: WaitPodReady returns nil only if an event with PodReady=True was
\* observed on the watch; in particular it does not return nil when ctx is
\* cancelled before the pod is ready.
C34_WaitPodReadyNilMeansReady ==
    waitErr = "nil" => podReady

\* C35: an AlreadyExists answer to the create of the ServiceAccount is taken
\* as success, CreatePod going on to create the Pod; after any other error
\* answer to a create Run has returned an error, with no later create
\* issued, the port-forwarder not started and the ready channel not closed.
C35_CreateErrors ==
    \A i \in 1..Len(createAns) :
        /\ createAns[i] = "exists" =>
              /\ createLog[i].Kind = "ServiceAccount"
              /\ i < Len(createAns) \/ (pc = "createPod" /\ runErr = "none")
        /\ createAns[i] = "error" =>
              /\ i = Len(createAns)
              /\ pc = "checkErr" /\ runErr = "error"
              /\ kfPc = "new" /\ readyCh = 0

\* The ServiceAccount existed already and the Pod was created after it.
C35_PodAfterExistingAccount ==
    /\ Len(createAns) = 4
    /\ createAns[3] = "exists" /\ createAns[4] = "ok" /\ pod = "set"

\* C36: the mutex of the KubeForwarder is held exactly where shouldStop is
\* read or written: the worker holds it from its Lock to its Unlock, where it
\* is past the port-forward session, the select and the timer; a Stop holds
\* it from its Lock to its Unlock; shouldStop is read and set only there.
C36_MutexAroundShouldStop ==
    /\ (mutex = <<"worker">>) <=> (kfPc \in {"read", "unlock"})
    /\ \A s \in Stoppers :
          (mutex = <<"stop", s>>) <=> (stopPc[s] \in {"set", "unlock"})

\* The worker reads shouldStop under the mutex while a Stop waits for it.
C36_StopWaitsForWorker ==
    /\ Running /\ mutex = <<"worker">> /\ kfPc = "read"
    /\ \E s \in Stoppers : stopPc[s] = "lock"

\* C37: the Pod sent for a list of N mappings has N + 1 container ports: the
\* i-th is the ContainerPortNumber of the i-th mapping with its protocol (UDP
\* for UDP, SCTP for SCTP, TCP otherwise), the last is named ssh and is
\* RemoteSSHPort; RemoteSSHPort, chosen by GetFreeSSHPortInContainer for
\* these mappings, is the container port of none of them.
C37_PodPortsOfMappings ==
    \A k \in 1..Len(createLog) :
        createLog[k].Kind = "Pod" =>
            LET ports == createLog[k].Ports
                N == Len(PortMappings)
            IN  /\ DOMAIN ports = 1..(N + 1)
                /\ \A i \in 1..N :
                      LET m == PortMappings[i]
                      IN  /\ DOMAIN ports[i] = {"ContainerPort", "Protocol"}
                          /\ ports[i].ContainerPort = m.ContainerPortNumber
                          /\ ports[i].Protocol =
                                CASE m.Protocol = "UDP" -> "UDP"
                                  [] m.Protocol = "SCTP" -> "SCTP"
                                  [] OTHER -> "TCP"
                          /\ m.ContainerPortNumber # ports[N + 1].ContainerPort
                /\ DOMAIN ports[N + 1] = {"Name", "ContainerPort"}
                /\ ports[N + 1].Name = "ssh"
                /\ ports[N + 1].ContainerPort = RemoteSSHPort

\* The Pod was sent for mappings that use 2222 and 22, so that the ssh port
\* comes from the sweep, and that differ in port and protocol.
C37_PodWithSweptSSHPort ==
    /\ Len(createLog) = 4 /\ createLog[4].Kind = "Pod"
    /\ RemoteSSHPort = SweepMin
    /\ Len(PortMappings) >= 2
    /\ PortMappings[1].Protocol # PortMappings[2].Protocol
====
